---- MODULE Spec2Model ----
(***************************************************************************)
(* A model of nsw-campsites (src/main.py): the availability-enrichment     *)
(* pipeline of main() and the pure functions it is built from.             *)
(*                                                                         *)
(* Python values are represented as follows.                               *)
(*   str            a sequence of one-character strings                    *)
(*   Optional[x]    None, or Some(x): a record [isNone, val]               *)
(*   JSON value     a record [t, s, l]: t the type tag, s the text of a    *)
(*                  scalar, l the elements of a list                       *)
(*   decoded body   a record [kind, m, v]: m the mapping of a dict body,   *)
(*                  v the value of any other body                          *)
(*   dict record    a function from its keys to values                     *)
(***************************************************************************)
EXTENDS Integers, Sequences, FiniteSets, TLC

\* ------------------------------------------------------------------ bounds

\* Longest raw identifier drawn for extract_context_id.
MaxLen == 3
\* Most elements of a dates list drawn for determine_availability.
MaxDates == 2
\* Most elements of a JSON list inside a decoded body.
MaxItems == 2

\* ------------------------------------------------------------ Python values

None == [isNone |-> TRUE, val |-> <<>>]

Some(x) == [isNone |-> FALSE, val |-> x]

\* Characters str.strip() removes (no argument: whitespace).
Whitespace == {" ", "\t"}

RECURSIVE lstrip(_)
lstrip(s) == IF s # <<>> /\ Head(s) \in Whitespace THEN lstrip(Tail(s)) ELSE s

RECURSIVE rstrip(_)
rstrip(s) ==
    IF s # <<>> /\ s[Len(s)] \in Whitespace THEN rstrip(SubSeq(s, 1, Len(s) - 1)) ELSE s

strip(s) == rstrip(lstrip(s))

startswith(s, c) == s # <<>> /\ s[1] = c

endswith(s, c) == s # <<>> /\ s[Len(s)] = c

\* s[1:-1]
SliceInner(s) == SubSeq(s, 2, Len(s) - 1)

\* ------------------------------------------------------ extract_context_id

extract_context_id(raw_id) ==
    IF raw_id.isNone \/ raw_id.val = <<>>
    THEN None
    ELSE LET cleaned == strip(raw_id.val)
             inner == IF startswith(cleaned, "{") /\ endswith(cleaned, "}")
                      THEN SliceInner(cleaned)
                      ELSE cleaned
         IN  IF inner = <<>> THEN None ELSE Some(inner)

\* --------------------------------------------------------------- JSON values

JNull == [t |-> "null", s |-> <<>>, l |-> <<>>]

JNum(digits) == [t |-> "num", s |-> digits, l |-> <<>>]

JStr(chars) == [t |-> "str", s |-> chars, l |-> <<>>]

JObj(keys) == [t |-> "obj", s |-> keys, l |-> <<>>]

JList(items) == [t |-> "list", s |-> <<>>, l |-> items]

\* bool(v) of a decoded JSON value.
Truthy(v) ==
    CASE v.t = "null" -> FALSE
      [] v.t = "num"  -> v.s # <<"0">>
      [] v.t = "str"  -> v.s # <<>>
      [] v.t = "obj"  -> v.s # <<>>
      [] v.t = "list" -> v.l # <<>>

\* a or b
PyOr(a, b) == IF Truthy(a) THEN a ELSE b

\* isinstance(v, list) and all(isinstance(d, str) for d in v)
IsListOfStr(v) == v.t = "list" /\ \A j \in 1..Len(v.l) : v.l[j].t = "str"

\* The Python list of str a JSON list of strings decodes to.
StrList(v) == [j \in 1..Len(v.l) |-> v.l[j].s]

DictBody(m) == [kind |-> "dict", m |-> m, v |-> JNull]

ValueBody(v) == [kind |-> "value", m |-> <<>>, v |-> v]

\* payload.get(key)
DictGet(m, key) == IF key \in DOMAIN m THEN m[key] ELSE JNull

\* ------------------------------------- fetch_availability_dates, lines 72-80

parse_payload(payload) ==
    LET dates == IF payload.kind = "dict"
                 THEN PyOr(DictGet(payload.m, "dates"), DictGet(payload.m, "Dates"))
                 ELSE JNull
    IN  IF payload.kind = "dict" /\ IsListOfStr(dates)
        THEN Some(StrList(dates))
        ELSE IF payload.kind = "value" /\ IsListOfStr(payload.v)
             THEN Some(StrList(payload.v))
             ELSE None

\* ----------------------------------------------------- determine_availability

Digits == <<"0", "1", "2", "3", "4", "5", "6", "7", "8", "9">>

DigitChar(n) == Digits[n + 1]

\* %d and %m: two digits, zero padded.
Pad2(n) == <<DigitChar(n \div 10), DigitChar(n % 10)>>

\* %Y of a four-digit year.
Pad4(n) == Pad2(n \div 100) \o Pad2(n % 100)

\* Mutant of strftime_dmY: month and day swapped ("%m/%d/%Y").
strftime_mdY(today) == Pad2(today.m) \o <<"/">> \o Pad2(today.d) \o <<"/">> \o Pad4(today.y)

\* today.strftime("%d/%m/%Y")
strftime_dmY(today) == Pad2(today.d) \o <<"/">> \o Pad2(today.m) \o <<"/">> \o Pad4(today.y)

\* x in xs
PyIn(x, xs) == \E j \in 1..Len(xs) : xs[j] = x

determine_availability(today, dates) ==
    IF dates.isNone \/ dates.val = <<>>
    THEN "unknown"
    ELSE IF PyIn(strftime_dmY(today), dates.val) THEN "available" ELSE "unavailable"

\* ------------------------------------------- fetch_availability_dates, whole

\* raise_for_status() raises for a 4xx or 5xx status.
raises_for_status(status) == status >= 400 /\ status < 600

\* Mutant of fetch_raises: the handler catches request errors only, so an
\* error status or a body that is no JSON raises out of the fetcher.
fetch_raises_uncaught(outcome) ==
    outcome.kind = "response" /\ (raises_for_status(outcome.status) \/ ~outcome.isJson)

\* Lines 58-70: except Exception catches whatever session.get, raise_for_status
\* or resp.json raise, and lines 72-80 raise nothing, so no outcome makes the
\* fetcher raise.
fetch_raises(outcome) == FALSE

\* What the fetcher returns for the outcome of session.get: an exception raised
\* by the request, or a response with its status and body.
fetch_result(outcome) ==
    IF outcome.kind = "error" THEN None
    ELSE IF raises_for_status(outcome.status) THEN None
    ELSE IF ~outcome.isJson THEN None
    ELSE parse_payload(outcome.payload)

\* -------------------------------------------------- the caching HTTP client

\* Mutant of EXPIRE_AFTER: six minutes.
EXPIRE_AFTER_minutes == 6 * 60

\* expire_after, in seconds.
EXPIRE_AFTER == 6 * 60 * 60

\* The request of lines 64-66: everything but contextItemId is fixed.
RequestSignature(context_id) ==
    [url |-> "AvailabilityDates", contextItemId |-> context_id,
     adults |-> 2, children |-> 0, infants |-> 0]

\* A stored response that has not expired.
CacheFresh(store, sig, now) ==
    sig \in DOMAIN store /\ now < store[sig].created + EXPIRE_AFTER

\* Only a 200 response is stored.
CacheStore(store, sig, outcome, now) ==
    IF outcome.kind = "response" /\ outcome.status = 200
    THEN (sig :> [created |-> now, response |-> outcome]) @@ store
    ELSE store

\* ------------------------------------------------------------------- main

DerivedKeys == {"_context_id", "_dates", "_availability"}

\* Lines 160-161.
context_id_of(cg) ==
    IF "id" \in DOMAIN cg /\ cg["id"].t = "str"
    THEN extract_context_id(Some(cg["id"].s))
    ELSE None

\* if context_id:
HasContextId(context_id) == ~context_id.isNone /\ context_id.val # <<>>

\* Mutant of enrich: a fresh dict holding the derived fields only.
enrich_fresh(cg, context_id, dates, status) ==
    [k \in DerivedKeys |->
        CASE k = "_context_id"   -> context_id
          [] k = "_dates"        -> dates
          [] k = "_availability" -> status]

\* Lines 167-170: dict(cg) with the three derived fields set.
enrich(cg, context_id, dates, status) ==
    [k \in DOMAIN cg \cup DerivedKeys |->
        CASE k = "_context_id"   -> context_id
          [] k = "_dates"        -> dates
          [] k = "_availability" -> status
          [] OTHER               -> cg[k]]

\* ------------------------------------------------------------ model inputs

\* Most records in all_campground.json.
MaxRecords == 2
\* Most runs of the program against the same cache file.
MaxRuns == 2
\* Most advances of the wall clock.
MaxTicks == 2

\* One advance of the wall clock, in seconds.
TickSeconds == 3 * 60 * 60

SeqsUpTo(S, n) == UNION {[1..k -> S] : k \in 0..n}

Title == JStr(<<"T">>)

\* Records of the input file: without id, with an id that is no string, with
\* an empty id, with an id that cleans to nothing, and with ids that yield a
\* context id. A file may hold the same record twice.
RecordPool ==
    { ("title" :> Title) @@ ("_availability" :> JStr(<<"o", "l", "d">>)),
      ("id" :> JNum(<<"7">>)) @@ ("title" :> Title),
      ("id" :> JStr(<<>>)) @@ ("title" :> Title),
      ("id" :> JStr(<<"{", "}">>)) @@ ("title" :> Title),
      ("id" :> JStr(<<"{", " ", "}">>)) @@ ("title" :> Title),
      ("id" :> JStr(<<" ", "{", "X", "}">>)) @@ ("title" :> Title) }

\* all_campground.json: missing, not JSON, JSON but no list, or a list of records.
FilePool ==
    { [exists |-> FALSE, kind |-> "none", recs |-> <<>>],
      [exists |-> TRUE, kind |-> "notjson", recs |-> <<>>],
      [exists |-> TRUE, kind |-> "notlist", recs |-> <<>>] }
    \cup { [exists |-> TRUE, kind |-> "list", recs |-> r] :
             r \in SeqsUpTo(RecordPool, MaxRecords) }

\* The date on the wall clock while the program runs.
TodayPool == { [d |-> 1, m |-> 5, y |-> 2024], [d |-> 5, m |-> 1, y |-> 2024] }

Str01052024 == <<"0", "1", "/", "0", "5", "/", "2", "0", "2", "4">>

\* What the availability endpoint may answer, or fail with.
OutcomePool ==
    { [kind |-> "error", status |-> 0, isJson |-> FALSE, payload |-> ValueBody(JNull)],
      [kind |-> "response", status |-> 500, isJson |-> FALSE, payload |-> ValueBody(JNull)],
      [kind |-> "response", status |-> 200, isJson |-> FALSE, payload |-> ValueBody(JNull)],
      [kind |-> "response", status |-> 200, isJson |-> TRUE,
       payload |-> DictBody("dates" :> JList(<<JStr(Str01052024)>>))],
      [kind |-> "response", status |-> 200, isJson |-> TRUE,
       payload |-> DictBody("other" :> JNum(<<"1">>))] }

\* What the GET of the site root may end with: an exception, or a response
\* (whose status fetch_cookies does not look at).
CookieOutcomePool == {"error", "ok", "http500"}

\* ------------------------------------------------------------------ state

VARIABLES
    call,        \* the last call of a pure function: [fn, arg, ret]
    file,        \* all_campground.json
    wallDate,    \* the date on the wall clock
    pc,          \* where main() is
    campgrounds, \* main's campgrounds
    today,       \* main's today
    cookies,     \* main's cookies
    enriched,    \* main's enriched
    idx,         \* position of the for loop in campgrounds (1-based)
    cache,       \* the response store of the cached session (on disk)
    clock,       \* wall clock, seconds
    inflight,    \* HTTP requests sent and not yet answered
    result,      \* how main() ended: running, return0, return1, raised
    stderr,      \* whether this run printed to the error stream
    mapWritten,  \* whether this run saved the map
    runs,        \* number of the current run
    attempts,    \* history: the fetches of this run, in order: [idx, net]
    failed,      \* history: indices of the records whose fetch failed in this run
    cookieReqs,  \* history: cookie requests this run issued
    cookieFailed,\* history: whether the cookie request of this run failed
    lastOk       \* history: per context id, the last 200 response the network gave

vars == <<call, file, wallDate, pc, campgrounds, today, cookies, enriched, idx, cache, clock,
          inflight, result, stderr, mapWritten, runs, attempts, failed, cookieReqs, cookieFailed, lastOk>>

mainVars == <<file, wallDate, pc, campgrounds, today, cookies, enriched, idx, cache, clock,
              inflight, result, stderr, mapWritten, runs, attempts, failed, cookieReqs, cookieFailed, lastOk>>

NoCall == [fn |-> "none", arg |-> None, ret |-> None]

NoDate == [d |-> 0, m |-> 0, y |-> 0]

\* The state main() starts a run in.
RunStart ==
    /\ pc = "start"
    /\ campgrounds = <<>>
    /\ today = NoDate
    /\ cookies = "none"
    /\ enriched = <<>>
    /\ idx = 0
    /\ inflight = {}
    /\ result = "running"
    /\ stderr = FALSE
    /\ mapWritten = FALSE
    /\ attempts = <<>>
    /\ failed = {}
    /\ cookieReqs = 0
    /\ cookieFailed = FALSE

Init ==
    /\ call = NoCall
    /\ file \in FilePool
    /\ wallDate \in TodayPool
    /\ RunStart
    /\ cache = <<>>
    /\ clock = 0
    /\ runs = 1
    /\ lastOk = <<>>

\* Mutant of MainMissingFile: no existence check, so opening the file raises.
MainMissingFileUnchecked ==
    /\ pc = "start"
    /\ ~file.exists
    /\ result' = "raised"
    /\ pc' = "done"
    /\ UNCHANGED <<call, file, wallDate, campgrounds, today, cookies, enriched, idx, cache,
                   clock, inflight, stderr, mapWritten, runs, attempts, failed, cookieReqs,
                   cookieFailed, lastOk>>

\* Lines 150-152: the input file is missing.
MainMissingFile ==
    /\ pc = "start"
    /\ ~file.exists
    /\ stderr' = TRUE
    /\ result' = "return1"
    /\ pc' = "done"
    /\ UNCHANGED <<call, file, wallDate, campgrounds, today, cookies, enriched, idx, cache, clock,
                   inflight, mapWritten, runs, attempts, failed, cookieReqs, cookieFailed, lastOk>>

\* Line 154 with lines 26-32: json.load or the list check raises.
MainLoadFails ==
    /\ pc = "start"
    /\ file.exists
    /\ file.kind # "list"
    /\ result' = "raised"
    /\ pc' = "done"
    /\ UNCHANGED <<call, file, wallDate, campgrounds, today, cookies, enriched, idx, cache, clock,
                   inflight, stderr, mapWritten, runs, attempts, failed, cookieReqs, cookieFailed, lastOk>>

\* Lines 154-157: load, build the session, take today, send the cookie request.
MainLoad ==
    /\ pc = "start"
    /\ file.exists
    /\ file.kind = "list"
    /\ campgrounds' = file.recs
    /\ today' = wallDate
    /\ inflight' = inflight \cup {[kind |-> "cookie", idx |-> 0]}
    /\ cookieReqs' = cookieReqs + 1
    /\ pc' = "cookies"
    /\ UNCHANGED <<call, file, wallDate, cookies, enriched, idx, cache, clock, result, stderr,
                   mapWritten, runs, attempts, failed, cookieFailed, lastOk>>

\* Mutant of CookieReply: a failed cookie request is swallowed and the run goes
\* on without cookies.
CookieReplySwallows ==
    /\ pc = "cookies"
    /\ \E o \in CookieOutcomePool :
         /\ inflight' = inflight \ {[kind |-> "cookie", idx |-> 0]}
         /\ cookieFailed' = (o = "error")
         /\ cookies' = IF o = "error" THEN "none" ELSE "jar"
         /\ enriched' = <<>>
         /\ idx' = 1
         /\ pc' = "loop"
    /\ UNCHANGED <<call, file, wallDate, campgrounds, today, cache, clock, result, stderr,
                   mapWritten, runs, attempts, failed, cookieReqs, lastOk>>

\* Lines 53-55 and 157-158: requests.get returns, or raises out of main.
CookieReply ==
    /\ pc = "cookies"
    /\ \E o \in CookieOutcomePool :
         /\ inflight' = inflight \ {[kind |-> "cookie", idx |-> 0]}
         /\ cookieFailed' = (o = "error")
         /\ IF o = "error"
            THEN /\ result' = "raised"
                 /\ pc' = "done"
                 /\ UNCHANGED <<cookies, enriched, idx>>
            ELSE /\ cookies' = "jar"
                 /\ enriched' = <<>>
                 /\ idx' = 1
                 /\ pc' = "loop"
                 /\ UNCHANGED result
    /\ UNCHANGED <<call, file, wallDate, campgrounds, today, cache, clock, stderr,
                   mapWritten, runs, attempts, failed, cookieReqs, lastOk>>

\* Lines 165-171 for the record at idx, given the dates fetched for it.
FinishRecord(context_id, dates) ==
    /\ enriched' = Append(enriched,
                      enrich(campgrounds[idx], context_id, dates,
                             determine_availability(today, dates)))
    /\ idx' = idx + 1
    /\ pc' = "loop"

\* A fetch that did not get dates: the request failed, the status is an error,
\* the body is no JSON, or the JSON is neither an object holding dates nor a list.
FetchFailed(o) ==
    \/ o.kind = "error"
    \/ o.status < 200
    \/ o.status >= 300
    \/ ~o.isJson
    \/ /\ o.payload.kind = "dict"
       /\ {"dates", "Dates"} \cap DOMAIN o.payload.m = {}
    \/ /\ o.payload.kind = "value"
       /\ o.payload.v.t # "list"

\* Lines 159-171 for a record without a context id: no request.
IterNoId ==
    /\ pc = "loop"
    /\ idx <= Len(campgrounds)
    /\ LET context_id == context_id_of(campgrounds[idx])
       IN  /\ ~HasContextId(context_id)
           /\ FinishRecord(context_id, None)
    /\ UNCHANGED <<call, file, wallDate, campgrounds, today, cookies, cache, clock,
                   inflight, result, stderr, mapWritten, runs, attempts, failed,
                   cookieReqs, cookieFailed, lastOk>>

\* Lines 159-171 for a record whose request the cache answers.
IterCached ==
    /\ pc = "loop"
    /\ idx <= Len(campgrounds)
    /\ LET context_id == context_id_of(campgrounds[idx])
           sig == RequestSignature(context_id.val)
       IN  /\ HasContextId(context_id)
           /\ CacheFresh(cache, sig, clock)
           /\ FinishRecord(context_id, fetch_result(cache[sig].response))
           /\ attempts' = Append(attempts, [idx |-> idx, net |-> FALSE])
           /\ failed' = IF FetchFailed(cache[sig].response) THEN failed \cup {idx} ELSE failed
    /\ UNCHANGED <<call, file, wallDate, campgrounds, today, cookies, cache, clock,
                   inflight, result, stderr, mapWritten, runs, cookieReqs, cookieFailed,
                   lastOk>>

\* Lines 159-164 for a record whose request goes to the network.
FetchSend ==
    /\ pc = "loop"
    /\ idx <= Len(campgrounds)
    /\ LET context_id == context_id_of(campgrounds[idx])
           sig == RequestSignature(context_id.val)
       IN  /\ HasContextId(context_id)
           /\ ~CacheFresh(cache, sig, clock)
           /\ inflight' = inflight \cup {[kind |-> "avail", idx |-> idx]}
           /\ attempts' = Append(attempts, [idx |-> idx, net |-> TRUE])
           /\ pc' = "await"
    /\ UNCHANGED <<call, file, wallDate, campgrounds, today, cookies, enriched, idx,
                   cache, clock, result, stderr, mapWritten, runs, failed, cookieReqs,
                   cookieFailed, lastOk>>

\* Mutant of FetchReply: a failed fetch leaves the record to be fetched again.
FetchReplyRetries ==
    /\ pc = "await"
    /\ \E o \in OutcomePool :
         LET context_id == context_id_of(campgrounds[idx])
             sig == RequestSignature(context_id.val)
         IN  /\ cache' = CacheStore(cache, sig, o, clock)
             /\ IF FetchFailed(o)
                THEN /\ pc' = "loop"
                     /\ UNCHANGED <<enriched, idx>>
                ELSE FinishRecord(context_id, fetch_result(o))
             /\ failed' = IF FetchFailed(o) THEN failed \cup {idx} ELSE failed
             /\ lastOk' = IF o.kind = "response" /\ o.status = 200
                           THEN (context_id.val :> [time |-> clock, run |-> runs, outcome |-> o])
                                @@ lastOk
                           ELSE lastOk
    /\ inflight' = inflight \ {[kind |-> "avail", idx |-> idx]}
    /\ UNCHANGED <<call, file, wallDate, campgrounds, today, cookies, clock, result, stderr,
                   mapWritten, runs, attempts, cookieReqs, cookieFailed>>

\* Lines 64-80 and 165-171: the network answers or fails; the record is finished.
FetchReply ==
    /\ pc = "await"
    /\ \E o \in OutcomePool :
         LET context_id == context_id_of(campgrounds[idx])
             sig == RequestSignature(context_id.val)
         IN  /\ cache' = CacheStore(cache, sig, o, clock)
             /\ IF fetch_raises(o)
                THEN /\ result' = "raised"
                     /\ pc' = "done"
                     /\ UNCHANGED <<enriched, idx>>
                ELSE /\ FinishRecord(context_id, fetch_result(o))
                     /\ UNCHANGED result
             /\ failed' = IF FetchFailed(o) THEN failed \cup {idx} ELSE failed
             /\ lastOk' = IF o.kind = "response" /\ o.status = 200
                           THEN (context_id.val :> [time |-> clock, run |-> runs, outcome |-> o])
                                @@ lastOk
                           ELSE lastOk
    /\ inflight' = inflight \ {[kind |-> "avail", idx |-> idx]}
    /\ UNCHANGED <<call, file, wallDate, campgrounds, today, cookies, clock, stderr,
                   mapWritten, runs, attempts, cookieReqs, cookieFailed>>

\* Lines 173-176: the loop is over; render, save, return 0.
Render ==
    /\ pc = "loop"
    /\ idx > Len(campgrounds)
    /\ mapWritten' = TRUE
    /\ result' = "return0"
    /\ pc' = "done"
    /\ UNCHANGED <<call, file, wallDate, campgrounds, today, cookies, enriched, idx, cache, clock,
                   inflight, stderr, runs, attempts, failed, cookieReqs, cookieFailed, lastOk>>

\* Time passes between two statements of main, or between two runs.
Tick ==
    /\ pc \in {"start", "loop"}
    /\ clock < MaxTicks * TickSeconds
    /\ clock' = clock + TickSeconds
    /\ UNCHANGED <<call, file, wallDate, pc, campgrounds, today, cookies, enriched, idx, cache,
                   inflight, result, stderr, mapWritten, runs, attempts, failed, cookieReqs, cookieFailed, lastOk>>

\* The program is run again: the cache file is what the last run left.
NextRun ==
    /\ pc = "done"
    /\ runs < MaxRuns
    /\ runs' = runs + 1
    /\ pc' = "start"
    /\ campgrounds' = <<>>
    /\ today' = NoDate
    /\ cookies' = "none"
    /\ enriched' = <<>>
    /\ idx' = 0
    /\ inflight' = {}
    /\ result' = "running"
    /\ stderr' = FALSE
    /\ mapWritten' = FALSE
    /\ attempts' = <<>>
    /\ failed' = {}
    /\ cookieReqs' = 0
    /\ cookieFailed' = FALSE
    /\ UNCHANGED <<call, file, wallDate, cache, clock, lastOk>>

Next ==
    \/ MainMissingFile
    \/ MainLoadFails
    \/ MainLoad
    \/ CookieReply
    \/ IterNoId
    \/ IterCached
    \/ FetchSend
    \/ FetchReply
    \/ Render
    \/ Tick
    \/ NextRun

Spec == Init /\ [][Next]_vars

\* ------------------------------------------- the pure functions, called alone

\* Characters of a raw identifier.
Alphabet == {" ", "\t", "{", "}", "a"}

\* raw_id: None or a string.
RawPool == {None} \cup {Some(s) : s \in SeqsUpTo(Alphabet, MaxLen)}

Str01012025 == <<"0", "1", "/", "0", "1", "/", "2", "0", "2", "5">>

Str02012025 == <<"0", "2", "/", "0", "1", "/", "2", "0", "2", "5">>

\* Elements of a JSON list.
ItemPool == {JStr(Str01012025), JStr(Str02012025), JNum(<<"1">>)}

\* Values a key of a JSON object may hold.
ValuePool ==
    {JNull, JNum(<<"0">>), JNum(<<"1">>), JStr(<<>>), JStr(Str01012025),
     JObj(<<>>), JObj(<<"k">>)}
    \cup {JList(l) : l \in SeqsUpTo(ItemPool, MaxItems)}

\* A key of a JSON object: left out, or holding a value.
KeyPool == {[absent |-> TRUE, v |-> JNull]} \cup {[absent |-> FALSE, v |-> x] : x \in ValuePool}

\* A JSON object with the keys dates and Dates, each left out or present.
DictOf(a, b) ==
    LET da == IF a.absent THEN <<>> ELSE ("dates" :> a.v)
        db == IF b.absent THEN <<>> ELSE ("Dates" :> b.v)
    IN  DictBody(da @@ db @@ ("other" :> JNum(<<"1">>)))

\* Decoded bodies.
PayloadPool ==
    {DictOf(a, b) : a \in KeyPool, b \in KeyPool} \cup {ValueBody(v) : v \in ValuePool}

Str1052024 == <<"1", "/", "5", "/", "2", "0", "2", "4">>

Str010524 == <<"0", "1", "/", "0", "5", "/", "2", "4">>

Str05012024 == <<"0", "5", "/", "0", "1", "/", "2", "0", "2", "4">>

\* Elements of a dates list: two dates as the API writes them, and strings that
\* are close to the first.
DateStrPool == {Str01052024, Str05012024, Str1052024, Str010524, Str01052024 \o <<" ">>}

DatesPool == {None} \cup {Some(l) : l \in SeqsUpTo(DateStrPool, MaxDates)}

InitFn ==
    /\ call = NoCall
    /\ file = [exists |-> FALSE, kind |-> "none", recs |-> <<>>]
    /\ wallDate = NoDate
    /\ pc = "idle"
    /\ campgrounds = <<>>
    /\ today = NoDate
    /\ cookies = "none"
    /\ enriched = <<>>
    /\ idx = 0
    /\ inflight = {}
    /\ result = "running"
    /\ stderr = FALSE
    /\ mapWritten = FALSE
    /\ attempts = <<>>
    /\ failed = {}
    /\ cookieReqs = 0
    /\ cookieFailed = FALSE
    /\ cache = <<>>
    /\ clock = 0
    /\ runs = 1
    /\ lastOk = <<>>

ExtractCall ==
    /\ call = NoCall
    /\ \E raw \in RawPool :
         call' = [fn |-> "extract_context_id", arg |-> raw, ret |-> extract_context_id(raw)]
    /\ UNCHANGED mainVars

ParseCall ==
    /\ call = NoCall
    /\ \E payload \in PayloadPool :
         call' = [fn |-> "parse_payload", arg |-> payload, ret |-> parse_payload(payload)]
    /\ UNCHANGED mainVars

ClassifyCall ==
    /\ call = NoCall
    /\ \E t \in TodayPool, ds \in DatesPool :
         call' = [fn |-> "determine_availability", arg |-> [today |-> t, dates |-> ds],
                  ret |-> determine_availability(t, ds)]
    /\ UNCHANGED mainVars

NextFn ==
    \/ ExtractCall
    \/ ParseCall
    \/ ClassifyCall

SpecFn == InitFn /\ [][NextFn]_vars

\* ------------------------------------------------------------------ claims

\* The steps the specification gives for extract_context_id: trim, remove one
\* pair of braces, trim again.
C1_SpecifiedSteps(raw) ==
    IF raw.isNone \/ raw.val = <<>>
    THEN None
    ELSE LET trimmed == strip(raw.val)
             inner == IF startswith(trimmed, "{") /\ endswith(trimmed, "}")
                      THEN SliceInner(trimmed)
                      ELSE trimmed
             again == strip(inner)
         IN  IF again = <<>> THEN None ELSE Some(again)

\* C1: extract_context_id(raw) is the result of the specified steps (None or
\* empty gives None; trim; remove one pair of braces; trim again; empty gives
\* None); the result never has leading or trailing whitespace; and for a string
\* s without a leading or trailing brace, wrapping s in braces does not change
\* the result.
C1_ExtractFollowsSpecifiedSteps ==
    call.fn = "extract_context_id" =>
        /\ call.ret = C1_SpecifiedSteps(call.arg)
        /\ (~call.ret.isNone => strip(call.ret.val) = call.ret.val)
        /\ (/\ ~call.arg.isNone
            /\ ~startswith(call.arg.val, "{")
            /\ ~endswith(call.arg.val, "}")
            => extract_context_id(Some(<<"{">> \o call.arg.val \o <<"}">>)) = call.ret)

\* Whether key k of a decoded object holds a sequence of strings.
C2_Supplies(m, k) == k \in DOMAIN m /\ IsListOfStr(m[k])

\* C2: a body that is a mapping whose key dates holds a sequence of strings
\* (the empty one included) yields exactly that sequence, whatever Dates holds;
\* a result taken from Dates is only ever returned when dates supplies no such
\* sequence; a body that is a sequence of strings is returned unchanged; every
\* other body yields None.
C2_FirstKeyWins ==
    call.fn = "parse_payload" =>
        LET body == call.arg IN
        /\ (body.kind = "dict" /\ C2_Supplies(body.m, "dates")
            => call.ret = Some(StrList(body.m["dates"])))
        /\ (body.kind = "dict" /\ ~C2_Supplies(body.m, "dates") /\ ~call.ret.isNone
            => C2_Supplies(body.m, "Dates") /\ call.ret = Some(StrList(body.m["Dates"])))
        /\ (body.kind = "value" /\ IsListOfStr(body.v)
            => call.ret = Some(StrList(body.v)))
        /\ (/\ ~(body.kind = "dict" /\ (C2_Supplies(body.m, "dates") \/ C2_Supplies(body.m, "Dates")))
            /\ ~(body.kind = "value" /\ IsListOfStr(body.v))
            => call.ret = None)

\* The number a decimal digit stands for, -1 for any other character.
C3_DigitValue(c) == IF \E n \in 0..9 : Digits[n + 1] = c
                    THEN CHOOSE n \in 0..9 : Digits[n + 1] = c
                    ELSE 0 - 1

\* Whether string s reads DD/MM/YYYY for date t.
C3_Reads(s, t) ==
    /\ Len(s) = 10
    /\ s[3] = "/"
    /\ s[6] = "/"
    /\ \A j \in {1, 2, 4, 5, 7, 8, 9, 10} : C3_DigitValue(s[j]) >= 0
    /\ 10 * C3_DigitValue(s[1]) + C3_DigitValue(s[2]) = t.d
    /\ 10 * C3_DigitValue(s[4]) + C3_DigitValue(s[5]) = t.m
    /\ 1000 * C3_DigitValue(s[7]) + 100 * C3_DigitValue(s[8])
         + 10 * C3_DigitValue(s[9]) + C3_DigitValue(s[10]) = t.y

\* C3: determine_availability(today, dates) is unknown when dates is None or
\* empty; otherwise it is available exactly when some element of dates is
\* today written DD/MM/YYYY, and unavailable when none is.
C3_Classification ==
    call.fn = "determine_availability" =>
        LET t == call.arg.today
            ds == call.arg.dates
        IN  IF ds.isNone \/ Len(ds.val) = 0
            THEN call.ret = "unknown"
            ELSE IF \E j \in 1..Len(ds.val) : C3_Reads(ds.val[j], t)
                 THEN call.ret = "available"
                 ELSE call.ret = "unavailable"

\* C3 witness: a call with two dates, the first a near miss of today and the
\* second today, classified available.
C3_Witness ==
    /\ call.fn = "determine_availability"
    /\ ~call.arg.dates.isNone
    /\ Len(call.arg.dates.val) = 2
    /\ ~C3_Reads(call.arg.dates.val[1], call.arg.today)
    /\ C3_Reads(call.arg.dates.val[2], call.arg.today)
    /\ call.ret = "available"

\* Whether some fetch of this run was for record i.
Attempted(i) == \E j \in 1..Len(attempts) : attempts[j].idx = i

\* C4: a record without an extractable identifier (id absent, no string, empty,
\* or empty after the specified cleaning) is enriched with _context_id None,
\* _dates None and _availability unknown and no request is issued for it; a
\* request is only issued for a record whose _context_id is a non-empty
\* cleaned identifier.
C4_NoIdentifierNoRequest ==
    \A i \in 1..Len(enriched) :
        LET cg == campgrounds[i]
            e == enriched[i]
            lacks == \/ "id" \notin DOMAIN cg
                     \/ cg["id"].t # "str"
                     \/ C1_SpecifiedSteps(Some(cg["id"].s)) = None
        IN  /\ lacks => /\ e["_context_id"] = None
                        /\ e["_dates"] = None
                        /\ e["_availability"] = "unknown"
                        /\ ~Attempted(i)
            /\ Attempted(i) => /\ ~e["_context_id"].isNone
                               /\ e["_context_id"].val # <<>>
                               /\ strip(e["_context_id"].val) = e["_context_id"].val

\* What C5 says of every state.
C5_Outcome ==
    /\ \A i \in failed : i <= Len(enriched) =>
           /\ enriched[i]["_dates"] = None
           /\ enriched[i]["_availability"] = "unknown"
    /\ (failed # {} => result # "raised")
    /\ (result = "raised" => attempts = <<>>)
    /\ (pc = "done" /\ cookies = "jar" =>
           /\ result = "return0"
           /\ mapWritten
           /\ Len(enriched) = Len(campgrounds))

C6_SixHours == 6 * 60 * 60

\* Whether the network gave a 200 response for context id cid less than six
\* hours ago.
C6_InWindow(cid) == cid \in DOMAIN lastOk /\ clock < lastOk[cid].time + C6_SixHours

\* C6: with the caching client a key-value store with a six-hour expiry: a
\* request whose signature (context id) got a 200 response from the network
\* less than six hours ago makes no network call and yields that response, in
\* the same run or a later one; a network call is made only when there is no
\* such response or it has expired.
C6_CacheSuppressesRepeats ==
    [][(pc = "loop" /\ idx <= Len(campgrounds) /\ Len(attempts') = Len(attempts) + 1) =>
          LET cid == context_id_of(campgrounds[idx]).val IN
          IF attempts'[Len(attempts')].net
          THEN ~C6_InWindow(cid)
          ELSE /\ C6_InWindow(cid)
               /\ enriched'[idx]["_dates"] = fetch_result(lastOk[cid].outcome)]_vars

\* C6 witness: in the second run, three hours after the first run's network
\* call, a record got the dates of that call without a network call.
C6_Witness ==
    /\ runs = 2
    /\ Len(attempts) = 1
    /\ ~attempts[1].net
    /\ Len(enriched) >= attempts[1].idx
    /\ LET cid == enriched[attempts[1].idx]["_context_id"].val IN
       /\ cid \in DOMAIN lastOk
       /\ lastOk[cid].run = 1
       /\ clock > lastOk[cid].time
       /\ ~enriched[attempts[1].idx]["_dates"].isNone

\* C7: a run whose input file is missing ends with exit code 1 after printing
\* to the error stream, with no cookie request, no availability request and no
\* map written; a run returns 0 only after loading the records, processing
\* every one of them and writing the map.
C7_ExitCodes ==
    /\ (~file.exists =>
           /\ cookieReqs = 0
           /\ attempts = <<>>
           /\ inflight = {}
           /\ ~mapWritten
           /\ result \in {"running", "return1"}
           /\ (pc = "done" => result = "return1" /\ stderr))
    /\ (result = "return1" => ~file.exists /\ stderr)
    /\ (result = "return0" =>
           /\ file.exists
           /\ file.kind = "list"
           /\ campgrounds = file.recs
           /\ Len(enriched) = Len(campgrounds)
           /\ mapWritten
           /\ inflight = {})

\* C7 witness: a run that found no input file and is over.
C7_Witness == ~file.exists /\ pc = "done" /\ result = "return1"

\* C8: the cookie request is issued once per run, after the input is loaded and
\* before any availability request; if it fails the run is over: the failure
\* is raised out of main, no availability request is issued, no record is
\* enriched, no map is written, and the run does not return 0.
C8_CookieOnceAndFatal ==
    /\ cookieReqs <= 1
    /\ (cookieReqs = 1 => file.kind = "list" /\ campgrounds = file.recs)
    /\ (pc \in {"loop", "await"} \/ result = "return0" => cookieReqs = 1)
    /\ (attempts # <<>> \/ (\E r \in inflight : r.kind = "avail") =>
           /\ cookieReqs = 1
           /\ cookies = "jar"
           /\ ~cookieFailed
           /\ \A r \in inflight : r.kind # "cookie")
    /\ (cookieFailed =>
           /\ pc = "done"
           /\ result = "raised"
           /\ attempts = <<>>
           /\ inflight = {}
           /\ enriched = <<>>
           /\ ~mapWritten)

\* C8 witness: the cookie request failed in a run over two records, the first
\* with a context id.
C8_Witness ==
    /\ cookieFailed
    /\ Len(campgrounds) = 2
    /\ HasContextId(context_id_of(campgrounds[1]))

\* The indices up to n of the records that have a context id, in list order.
RECURSIVE C9_IdIndices(_)
C9_IdIndices(n) ==
    IF n = 0
    THEN <<>>
    ELSE IF HasContextId(context_id_of(campgrounds[n]))
         THEN Append(C9_IdIndices(n - 1), n)
         ELSE C9_IdIndices(n - 1)

C9_AttemptedIndices == [j \in 1..Len(attempts) |-> attempts[j].idx]

\* C9: fetches are attempted in record order, once per record that has a
\* context id and never again after a failure; at most one HTTP request is in
\* flight; while the fetch for a record is in flight every earlier record has
\* been enriched and appended and no later record has been started.
C9_Sequential ==
    /\ Cardinality(inflight) <= 1
    /\ (pc = "loop" =>
           /\ inflight = {}
           /\ Len(enriched) = idx - 1
           /\ C9_AttemptedIndices = C9_IdIndices(idx - 1))
    /\ (pc = "await" =>
           /\ inflight = {[kind |-> "avail", idx |-> idx]}
           /\ Len(enriched) = idx - 1
           /\ C9_AttemptedIndices = C9_IdIndices(idx))
    /\ (result = "return0" => C9_AttemptedIndices = C9_IdIndices(Len(campgrounds)))

\* C9 witness: the fetch for the second record is in flight after the fetch
\* for the first record failed.
C9_Witness ==
    /\ pc = "await"
    /\ idx = 2
    /\ failed = {1}
    /\ Len(attempts) = 2
    /\ attempts[2].net

\* C10: the enriched list follows the input list record by record: the i-th
\* enriched record has the keys of the i-th input record plus the three derived
\* ones, agrees with it on every other key, and its _availability is
\* determine_availability(today, _dates) for the today taken before the loop;
\* the input records are unchanged; after the loop the lists have equal length.
C10_EnrichmentPreservesInput ==
    (pc \in {"loop", "await"} \/ result = "return0") =>
        /\ campgrounds = file.recs
        /\ today = wallDate
        /\ Len(enriched) <= Len(campgrounds)
        /\ (result = "return0" => Len(enriched) = Len(campgrounds))
        /\ \A i \in 1..Len(enriched) :
               LET cg == campgrounds[i]
                   e == enriched[i]
               IN  /\ DOMAIN e = DOMAIN cg \cup DerivedKeys
                   /\ \A k \in DOMAIN cg \ DerivedKeys : e[k] = cg[k]
                   /\ e["_availability"] = determine_availability(today, e["_dates"])

\* C10 witness: a finished run over a record that came with an _availability
\* key of its own and a record that was fetched and is available.
C10_Witness ==
    /\ result = "return0"
    /\ Len(enriched) = 2
    /\ "_availability" \in DOMAIN campgrounds[1]
    /\ enriched[1]["_availability"] = "unknown"
    /\ enriched[2]["_availability"] = "available"
    /\ enriched[2]["title"] = campgrounds[2]["title"]

====
